---- MODULE Spec2Model ----
(***************************************************************************)
(* A model of pbcore.io.BasH5Reader (src/src/pbcore/io/BasH5Reader.py):    *)
(* the single-part reader BaxH5Reader with its offset and region indexes,  *)
(* the Zmw view, the ZmwRead / CCSZmwRead views and the multi-part reader  *)
(* BasH5Reader.  The readers never write to a file: the state is the files *)
(* as the reader finds them, the reader built from them (with its file     *)
(* handles and its lazily filled metric cache), the last call made on it   *)
(* and what the call produced.                                             *)
(*                                                                         *)
(* Python values are modelled as follows.  A dict is a function whose      *)
(* DOMAIN is the set of keys.  A numpy array or list is a sequence; the    *)
(* code's 0-based positions are kept and translated where a sequence is    *)
(* indexed.  A call produces Return(v) or Raise(e), e the exception class. *)
(* None is the record NoneValue.  An optional argument is <<>> (None) or   *)
(* <<v>>.                                                                  *)
(***************************************************************************)
EXTENDS Integers, Sequences, FiniteSets, TLC

VARIABLES
    parts,           \* BasH5Reader._parts: the BaxH5Reader objects
    holeLookup,      \* BasH5Reader._holeLookup: [multi, vector]
    sequencingZmws,  \* BasH5Reader._sequencingZmws
    store,           \* the part files' datasets, one File per part
    handles,         \* the h5py handles: [top, parts], each [file, closes]
    metricCache,     \* per part, BaxH5Reader.__metricCache: name -> array
    storeReads,      \* per part and metric name, how often the dataset
                     \* ZMWMetrics/<name> was read whole (.value)
    seen,            \* what a client noted of its calls (see ZmwCall)
    call,            \* the last call: [op |-> ..., arguments]
    result           \* what it produced: Return(v) or Raise(e)

\* The reader: everything but the call and its result.
reader ==
    <<parts, holeLookup, sequencingZmws, store, handles, metricCache,
      storeReads>>

vars == <<reader, seen, call, result>>

(***************************** program constants ***************************)

SEQUENCING_ZMW == 0
ADAPTER_REGION == 0
INSERT_REGION == 1
HQ_REGION == 2

(********************************* bounds **********************************)

\* Event counts (ZMW/NumEvent) of a hole are drawn from 0..MaxEvent.
MaxEvent == 2
\* An annotation table has at most MaxRows rows.
MaxRows == 3
\* A bulk-lookup list or selector has at most MaxKeyLen elements.
MaxKeyLen == 2
\* Requests for metrics go on while no dataset has been read MaxReads times.
MaxReads == 3
\* Calls of close go on while no handle has been closed MaxCloses times.
MaxCloses == 2

\* The hole numbers files are written with, and the ones a client asks
\* for: those and one that no file holds.
HoleNumbers == {0, 1}
AnyHole == 0..2

\* Region rows start and end at these positions of a hole's event stream.
Positions == 0..2

(**************************** Python plumbing ******************************)

Return(v) == [exc |-> "none", val |-> v]
Raise(e) == [exc |-> e]
IsReturn(r) == r.exc = "none"
NoneValue == [kind |-> "None"]

Min2(a, b) == IF a <= b THEN a ELSE b
Max2(a, b) == IF a >= b THEN a ELSE b
SetMax(S) == CHOOSE x \in S : \A y \in S : y <= x

\* seq[a:b] for 0 <= a <= b <= len(seq)
Slice(seq, a, b) == [i \in 1..(b - a) |-> seq[a + i]]

\* dict(zip(keys, vals)): zip stops at the shorter, a repeated key keeps its
\* last value
DictZip(keys, vals) ==
    LET n == Min2(Len(keys), Len(vals))
    IN  [k \in {keys[i] : i \in 1..n} |->
            vals[SetMax({i \in 1..n : keys[i] = k})]]

\* [ x for x in seq if P(x) ], order kept
RECURSIVE SelectRows(_, _)
SelectRows(seq, type) ==
    IF seq = <<>> THEN <<>>
    ELSE LET rest == SelectRows(Tail(seq), type)
         IN  IF Head(seq).regionType = type THEN <<Head(seq)>> \o rest
             ELSE rest

(****************************** module level *******************************)

intersectRanges(r1, r2) ==
    LET b == Max2(r1[1], r2[1])
        e == Min2(r1[2], r2[2])
    IN  IF b < e THEN <<b, e>> ELSE NoneValue

RECURSIVE removeNones(_)
removeNones(lst) ==
    IF lst = <<>> THEN <<>>
    ELSE IF Head(lst) /= NoneValue THEN <<Head(lst)>> \o removeNones(Tail(lst))
         ELSE removeNones(Tail(lst))

\* np.cumsum
RECURSIVE cumsum(_)
cumsum(a) ==
    IF a = <<>> THEN <<>>
    ELSE LET front == cumsum(SubSeq(a, 1, Len(a) - 1))
         IN  Append(front,
                    (IF front = <<>> THEN 0 ELSE front[Len(front)]) + a[Len(a)])

\* An index built without the leading 0 of beginOffset.
_makeOffsetsDataStructure_Unshifted(numEvent, holeNumber) ==
    LET endOffset == cumsum(numEvent)
        offsets == [i \in 1..Len(endOffset) |-> <<endOffset[i], endOffset[i]>>]
    IN  DictZip(holeNumber, offsets)

_makeOffsetsDataStructure(numEvent, holeNumber) ==
    LET endOffset == cumsum(numEvent)
        beginOffset == <<0>> \o SubSeq(endOffset, 1, Len(endOffset) - 1)
        n == Min2(Len(beginOffset), Len(endOffset))
        offsets == [i \in 1..n |-> <<beginOffset[i], endOffset[i]>>]
    IN  DictZip(holeNumber, offsets)

\* np.unique: the distinct values, ascending
RECURSIVE SortedSeq(_)
SortedSeq(S) ==
    IF S = {} THEN <<>>
    ELSE LET m == CHOOSE x \in S : \A y \in S : x <= y
         IN  <<m>> \o SortedSeq(S \ {m})

unique(a) == SortedSeq({a[i] : i \in 1..Len(a)})

\* np.flatnonzero(np.ediff1d(a, to_begin=[1], to_end=[1])): the 0-based
\* positions p in 0..len(a) with p = 0, p = len(a) or a[p] /= a[p-1]
\* (for an empty a numpy lists both ends, 0 and 1; no key is paired with
\* them, np.unique being empty)
changepoints(a) ==
    SortedSeq({p \in 0..Len(a) :
                  \/ p = 0
                  \/ p = Len(a)
                  \/ a[p + 1] /= a[p]})

_makeRegionTableIndex(regionTableHoleNumbers) ==
    LET cp == changepoints(regionTableHoleNumbers)
        startsAndEnds == [i \in 1..(Len(cp) - 1) |-> <<cp[i], cp[i + 1]>>]
    IN  DictZip(unique(regionTableHoleNumbers), startsAndEnds)

(****************************** BaxH5Reader ********************************)

(* A file is described by what the reader loads from it:                   *)
(*   filename      the path the reader is opened with                      *)
(*   holeNumber    ZMW/HoleNumber, in row order (the raw and the consensus *)
(*                 group list the same holes)                              *)
(*   numEvent      /PulseData/BaseCalls/ZMW/NumEvent                       *)
(*   ccsNumEvent   /PulseData/ConsensusBaseCalls/ZMW/NumEvent              *)
(*   holeStatus    ZMW/HoleStatus                                          *)
(*   hasRaw, hasCCS  whether each group is in the file                     *)
(*   numPasses     /PulseData/ConsensusBaseCalls/Passes/NumPasses          *)
(*   regions       /PulseData/Regions: rows [holeNumber, regionType,       *)
(*                 regionStart, regionEnd] (regionScore is never read)     *)

\* toRecArray(REGION_TABLE_DTYPE, np.zeros(...)) with holeNumber filled in
ZeroRow(hn) ==
    [holeNumber |-> hn, regionType |-> 0, regionStart |-> 0, regionEnd |-> 0]

\* The HQ rows the constructor lines up with holeNumbers (lines 360-377).
hqRegionsOf(regionTable, holeNumbers) ==
    LET hqRegions == SelectRows(regionTable, HQ_REGION)
    IN  IF Len(hqRegions) /= Len(holeNumbers)
        THEN [i \in 1..Len(holeNumbers) |->
                 LET mine == {j \in 1..Len(hqRegions) :
                                 hqRegions[j].holeNumber = holeNumbers[i]}
                 IN  IF mine = {} THEN ZeroRow(holeNumbers[i])
                     ELSE hqRegions[SetMax(mine)]]
        ELSE hqRegions

\* holeNumbers[(holeStatus == SEQUENCING_ZMW) & (NumEvent > 0) & (hqRegionLength > 0)]
RECURSIVE MaskSelect(_, _)
MaskSelect(a, mask) ==
    IF a = <<>> THEN <<>>
    ELSE (IF Head(mask) THEN <<Head(a)>> ELSE <<>>)
         \o MaskSelect(Tail(a), Tail(mask))

\* self._mainBasecallsGroup["ZMW/NumEvent"] > 0 (line 389) compares the
\* h5py Dataset itself, not its .value, with 0.  Python 2 orders an object
\* that defines no comparison after every number, so the test is True
\* whatever the counts are ("object"); an h5py whose Dataset compares as
\* its array does gives the test of each count ("elementwise").
DatasetComparisons == {"object", "elementwise"}

sequencingZmwsOf(f, comparison) ==
    LET mainNumEvent == IF f.hasRaw THEN f.numEvent ELSE f.ccsNumEvent
        hqRegions == hqRegionsOf(f.regions, f.holeNumber)
        mask == [i \in 1..Len(f.holeNumber) |->
                    /\ f.holeStatus[i] = SEQUENCING_ZMW
                    /\ comparison = "elementwise" => mainNumEvent[i] > 0
                    /\ hqRegions[i].regionEnd - hqRegions[i].regionStart > 0]
    IN  MaskSelect(f.holeNumber, mask)

\* The constructor raises KeyError when it rebuilds the HQ table (line 376)
\* and an HQ row names a hole that is not in ZMW/HoleNumber.
BaxH5ReaderOpens(f) ==
    LET hqRegions == SelectRows(f.regions, HQ_REGION)
    IN  \/ Len(hqRegions) = Len(f.holeNumber)
        \/ \A j \in 1..Len(hqRegions) :
              \E i \in 1..Len(f.holeNumber) :
                 f.holeNumber[i] = hqRegions[j].holeNumber

BaxH5Reader(f, comparison) ==
    [ filename              |-> f.filename,
      hasRawBasecalls       |-> f.hasRaw,
      hasConsensusBasecalls |-> f.hasCCS,
      \* an attribute the constructor does not set is left empty here; the
      \* capability flag says whether it exists
      _offsetsByHole        |-> IF f.hasRaw
                                THEN _makeOffsetsDataStructure(f.numEvent, f.holeNumber)
                                ELSE <<>>,
      _ccsOffsetsByHole     |-> IF f.hasCCS
                                THEN _makeOffsetsDataStructure(f.ccsNumEvent, f.holeNumber)
                                ELSE <<>>,
      _ccsNumPasses         |-> IF f.hasCCS THEN f.numPasses ELSE <<>>,
      _holeNumberToIndex    |-> DictZip(f.holeNumber,
                                        [i \in 1..Len(f.holeNumber) |-> i - 1]),
      regionTable           |-> f.regions,
      _regionTableIndex     |-> _makeRegionTableIndex(
                                    [i \in 1..Len(f.regions) |->
                                        f.regions[i].holeNumber]),
      _sequencingZmws       |-> sequencingZmwsOf(f, comparison) ]

(********************************** Zmw ************************************)

\* A call either returns or raises: Bind(r, F) applies F to what r returned
\* and hands an exception on.
Bind(r, F(_)) == IF IsReturn(r) THEN F(r.val) ELSE r

\* Zmw.__init__
Zmw(baxH5, holeNumber) ==
    IF holeNumber \in DOMAIN baxH5._holeNumberToIndex
    THEN Return([kind |-> "Zmw", baxH5 |-> baxH5.filename,
                 holeNumber |-> holeNumber,
                 index |-> baxH5._holeNumberToIndex[holeNumber]])
    ELSE Raise("KeyError")

Zmw_regionTable(baxH5, zmw) ==
    IF zmw.holeNumber \in DOMAIN baxH5._regionTableIndex
    THEN LET startRow == baxH5._regionTableIndex[zmw.holeNumber][1]
             endRow == baxH5._regionTableIndex[zmw.holeNumber][2]
         IN  Return(Slice(baxH5.regionTable, startRow, endRow))
    ELSE Raise("KeyError")

Zmw_hqRegion(baxH5, zmw) ==
    LET F(rt) ==
            LET hqRows == SelectRows(rt, HQ_REGION)
            IN  IF Len(hqRows) = 1
                THEN Return(<<hqRows[1].regionStart, hqRows[1].regionEnd>>)
                ELSE Return(<<0, 0>>)
    IN  Bind(Zmw_regionTable(baxH5, zmw), F)

\* adapterRegions and insertRegions differ in the region type only.
clippedRegions(baxH5, zmw, type) ==
    LET F(rt) ==
            LET rows == SelectRows(rt, type)
                unclipped == [i \in 1..Len(rows) |->
                                 <<rows[i].regionStart, rows[i].regionEnd>>]
                G(hqRegion) ==
                    Return(removeNones(
                        [i \in 1..Len(unclipped) |->
                            intersectRanges(hqRegion, unclipped[i])]))
            IN  Bind(Zmw_hqRegion(baxH5, zmw), G)
    IN  Bind(Zmw_regionTable(baxH5, zmw), F)

Zmw_adapterRegions(baxH5, zmw) == clippedRegions(baxH5, zmw, ADAPTER_REGION)

Zmw_insertRegions(baxH5, zmw) == clippedRegions(baxH5, zmw, INSERT_REGION)

(******************************** ZmwRead **********************************)

\* A constructor that cuts a read at the end of its hole instead of raising.
NewRead_Truncating(baxH5, holeNumber, readStart, readEnd, ccs) ==
    LET offsets == IF ccs THEN baxH5._ccsOffsetsByHole ELSE baxH5._offsetsByHole
    IN  IF holeNumber \notin DOMAIN offsets THEN Raise("KeyError")
        ELSE LET zmwOffsetBegin == offsets[holeNumber][1]
                 zmwOffsetEnd == offsets[holeNumber][2]
                 offsetBegin == zmwOffsetBegin + readStart
                 offsetEnd == Min2(zmwOffsetBegin + readEnd, zmwOffsetEnd)
             IN  IF ~(zmwOffsetBegin <= offsetBegin /\ offsetBegin <= offsetEnd)
                 THEN Raise("IndexError")
                 ELSE Return([kind |-> IF ccs THEN "CCSZmwRead" ELSE "ZmwRead",
                              holeNumber |-> holeNumber,
                              readStart |-> readStart,
                              readEnd |-> offsetEnd - zmwOffsetBegin,
                              offsetBegin |-> offsetBegin,
                              offsetEnd |-> offsetEnd])

\* ZmwRead.__init__ and, with ccs, CCSZmwRead's: _getOffsets() picks the index.
NewRead(baxH5, holeNumber, readStart, readEnd, ccs) ==
    IF (IF ccs THEN ~baxH5.hasConsensusBasecalls ELSE ~baxH5.hasRawBasecalls)
    THEN Raise("AttributeError")
    ELSE
    LET offsets == IF ccs THEN baxH5._ccsOffsetsByHole ELSE baxH5._offsetsByHole
    IN  IF holeNumber \notin DOMAIN offsets THEN Raise("KeyError")
        ELSE LET zmwOffsetBegin == offsets[holeNumber][1]
                 zmwOffsetEnd == offsets[holeNumber][2]
                 offsetBegin == zmwOffsetBegin + readStart
                 offsetEnd == zmwOffsetBegin + readEnd
             IN  IF ~(/\ zmwOffsetBegin <= offsetBegin
                      /\ offsetBegin <= offsetEnd
                      /\ offsetEnd <= zmwOffsetEnd)
                 THEN Raise("IndexError")
                 ELSE Return([kind |-> IF ccs THEN "CCSZmwRead" ELSE "ZmwRead",
                              holeNumber |-> holeNumber,
                              readStart |-> readStart,
                              readEnd |-> readEnd,
                              offsetBegin |-> offsetBegin,
                              offsetEnd |-> offsetEnd])

ZmwRead(baxH5, holeNumber, readStart, readEnd) ==
    NewRead(baxH5, holeNumber, readStart, readEnd, FALSE)

CCSZmwRead(baxH5, holeNumber, readStart, readEnd) ==
    NewRead(baxH5, holeNumber, readStart, readEnd, TRUE)

\* ZmwRead.__len__
ReadLen(read) == read.readEnd - read.readStart

(**************************** Zmw: the reads *******************************)

Zmw_numPasses(baxH5, zmw) ==
    IF ~baxH5.hasConsensusBasecalls THEN Raise("ValueError")
    ELSE Return(baxH5._ccsNumPasses[zmw.index + 1])

\* A read that looks the high-quality region up before it checks the capability.
Zmw_read_LateCheck(baxH5, zmw, readStart, readEnd) ==
    LET F(hq) ==
            IF ~baxH5.hasRawBasecalls THEN Raise("ValueError")
            ELSE ZmwRead(baxH5, zmw.holeNumber,
                         IF readStart = <<>> THEN hq[1] ELSE readStart[1],
                         IF readEnd = <<>> THEN hq[2] ELSE readEnd[1])
    IN  Bind(Zmw_hqRegion(baxH5, zmw), F)

\* readStart and readEnd are <<>> (None) or <<v>>
Zmw_read(baxH5, zmw, readStart, readEnd) ==
    IF ~baxH5.hasRawBasecalls THEN Raise("ValueError")
    ELSE LET F(hq) ==
                 ZmwRead(baxH5, zmw.holeNumber,
                         IF readStart = <<>> THEN hq[1] ELSE readStart[1],
                         IF readEnd = <<>> THEN hq[2] ELSE readEnd[1])
         IN  Bind(Zmw_hqRegion(baxH5, zmw), F)

\* A comprehension that leaves out the reads that raise.
RECURSIVE readEach_Skipping(_, _, _)
readEach_Skipping(baxH5, zmw, regions) ==
    IF regions = <<>> THEN Return(<<>>)
    ELSE LET first == Zmw_read(baxH5, zmw, <<Head(regions)[1]>>, <<Head(regions)[2]>>)
             rest == readEach_Skipping(baxH5, zmw, Tail(regions))
         IN  IF ~IsReturn(first) THEN rest
             ELSE Return(<<first.val>> \o rest.val)

\* [ self.read(readStart, readEnd) for (readStart, readEnd) in regions ]:
\* the first read that raises ends the comprehension
RECURSIVE readEach(_, _, _)
readEach(baxH5, zmw, regions) ==
    IF regions = <<>> THEN Return(<<>>)
    ELSE LET first == Zmw_read(baxH5, zmw, <<Head(regions)[1]>>, <<Head(regions)[2]>>)
         IN  IF ~IsReturn(first) THEN first
             ELSE LET rest == readEach(baxH5, zmw, Tail(regions))
                  IN  IF ~IsReturn(rest) THEN rest
                      ELSE Return(<<first.val>> \o rest.val)

Zmw_subreads(baxH5, zmw) ==
    IF ~baxH5.hasRawBasecalls THEN Raise("ValueError")
    ELSE LET F(regions) == readEach(baxH5, zmw, regions)
         IN  Bind(Zmw_insertRegions(baxH5, zmw), F)

Zmw_adapters(baxH5, zmw) ==
    IF ~baxH5.hasRawBasecalls THEN Raise("ValueError")
    ELSE LET F(regions) == readEach(baxH5, zmw, regions)
         IN  Bind(Zmw_adapterRegions(baxH5, zmw), F)

\* A ccsRead that hands out a zero-length read (< 0 for <= 0).
Zmw_ccsRead_ZeroLength(baxH5, zmw) ==
    IF ~baxH5.hasConsensusBasecalls THEN Raise("ValueError")
    ELSE IF zmw.holeNumber \notin DOMAIN baxH5._ccsOffsetsByHole
         THEN Raise("KeyError")
         ELSE LET baseOffset == baxH5._ccsOffsetsByHole[zmw.holeNumber]
              IN  IF baseOffset[2] - baseOffset[1] < 0 THEN Return(NoneValue)
                  ELSE CCSZmwRead(baxH5, zmw.holeNumber, 0,
                                  baseOffset[2] - baseOffset[1])

Zmw_ccsRead(baxH5, zmw) ==
    IF ~baxH5.hasConsensusBasecalls THEN Raise("ValueError")
    ELSE IF zmw.holeNumber \notin DOMAIN baxH5._ccsOffsetsByHole
         THEN Raise("KeyError")
         ELSE LET baseOffset == baxH5._ccsOffsetsByHole[zmw.holeNumber]
              IN  IF baseOffset[2] - baseOffset[1] <= 0 THEN Return(NoneValue)
                  ELSE CCSZmwRead(baxH5, zmw.holeNumber, 0,
                                  baseOffset[2] - baseOffset[1])

(****************************** BasH5Reader ********************************)

\* Python's list[i] and numpy's vector[i] for an integer i: a negative i
\* counts from the end, anything outside raises IndexError.
PyIndex(seq, i) ==
    IF 0 <= i /\ i < Len(seq) THEN Return(seq[i + 1])
    ELSE IF -Len(seq) <= i /\ i < 0 THEN Return(seq[Len(seq) + i + 1])
         ELSE Raise("IndexError")

\* np.concatenate([ part.sequencingZmws for part in self._parts ])
RECURSIVE concatSequencingZmws(_)
concatSequencingZmws(ps) ==
    IF ps = <<>> THEN <<>>
    ELSE Head(ps)._sequencingZmws \o concatSequencingZmws(Tail(ps))

(******************************* ZMW metrics *******************************)

\* v[index,] if len(v.shape) > 1 else v[index]: either way the entry at
\* index along the first axis
metricEntry(v, index) ==
    IF v.ndim > 1 THEN PyIndex(v.rows, index) ELSE PyIndex(v.rows, index)

\* A zmwMetric that reads the dataset on every request and stores nothing.
BaxH5Reader_zmwMetric_Uncached(cache, reads, f, name, index) ==
    IF name \notin DOMAIN f.metrics
    THEN [cache |-> cache, reads |-> reads, result |-> Raise("KeyError")]
    ELSE [cache |-> cache,
          reads |-> [reads EXCEPT ![name] = @ + 1],
          result |-> metricEntry(f.metrics[name], index)]

\* A zmwMetric that keeps only the dataset it read last.
BaxH5Reader_zmwMetric_Evicting(cache, reads, f, name, index) ==
    IF name \notin DOMAIN cache
    THEN IF name \notin DOMAIN f.metrics
         THEN [cache |-> cache, reads |-> reads, result |-> Raise("KeyError")]
         ELSE [cache |-> (name :> f.metrics[name]),
               reads |-> [reads EXCEPT ![name] = @ + 1],
               result |-> metricEntry(f.metrics[name], index)]
    ELSE [cache |-> cache, reads |-> reads,
          result |-> metricEntry(cache[name], index)]

\* BaxH5Reader.zmwMetric(name, index) on a part with metric cache `cache`,
\* read counts `reads` and file f: the cache and the counts it leaves and
\* what it produces.  A name the file has no dataset for raises KeyError at
\* self._mainBasecallsGroup[k], before anything is read or stored.
BaxH5Reader_zmwMetric(cache, reads, f, name, index) ==
    IF name \notin DOMAIN cache
    THEN IF name \notin DOMAIN f.metrics
         THEN [cache |-> cache, reads |-> reads, result |-> Raise("KeyError")]
         ELSE [cache |-> (name :> f.metrics[name]) @@ cache,
               reads |-> [reads EXCEPT ![name] = @ + 1],
               result |-> metricEntry(f.metrics[name], index)]
    ELSE [cache |-> cache, reads |-> reads,
          result |-> metricEntry(cache[name], index)]

\* BaxH5Reader.listZmwMetrics: the keys of self._basecallsGroup["ZMWMetrics"];
\* a reader without raw basecalls has no _basecallsGroup
BaxH5Reader_listZmwMetrics(baxH5, f) ==
    IF ~baxH5.hasRawBasecalls THEN Raise("AttributeError")
    ELSE Return(DOMAIN f.metrics)

(********************************* close ***********************************)

\* A close that closes the handle whether it is still held or not.
closeFile_Unguarded(handle) ==
    [file |-> "None", closes |-> handle.closes + 1]

\* if hasattr(self, "file") and self.file != None:
\*     self.file.close(); self.file = None
\* (the constructors always set self.file)
closeFile(handle) ==
    IF handle.file /= "None"
    THEN [file |-> "None", closes |-> handle.closes + 1]
    ELSE handle

\* BaxH5Reader.close
BaxH5Reader_close(hs, p) ==
    [hs EXCEPT !.parts[p] = closeFile(@)]

\* BasH5Reader.close: the reader's own handle, then every part
BasH5Reader_close(hs) ==
    [top |-> closeFile(hs.top),
     parts |-> [p \in 1..Len(hs.parts) |-> closeFile(hs.parts[p])]]

(* A bulk-lookup key is                                                    *)
(*   a scalar  [kind |-> k, v |-> n]: k the Python type, n the number the   *)
(*             value has where it has one;                                  *)
(*   a slice   [kind |-> "slice", start |-> o, stop |-> o], o <<>> (None)   *)
(*             or <<n>>, the step left out;                                 *)
(*   a list or an ndarray  [kind |-> "list" or "ndarray", items |-> seq]    *)
(*             of scalars.                                                  *)
(* The code is Python 2: long is a type of its own, bool is a subclass of   *)
(* int, np.int64 ("npint") and np.bool_ ("npbool") are numpy's.             *)

\* isinstance(x, int) or issubclass(type(x), np.integer)
IsIntegerInstance(kind) == kind \in {"int", "bool", "npint"}

\* entryType == int or issubclass(entryType, np.integer)
IsIntegerType(kind) == kind \in {"int", "npint"}

\* entryType == bool or issubclass(entryType, np.bool_)
IsBoolType(kind) == kind \in {"bool", "npbool"}

Item(kind, v) == [kind |-> kind, v |-> v]

\* self._holeLookup(holeNumber): the lambda of a single-part file answers 1
\* for anything; the vector of a multi-part file is a numpy array, and what
\* numpy raises for an index that is a string depends on its version
\* (npError: IndexError or ValueError).
_holeLookup(lookup, r, npError) ==
    IF ~lookup.multi THEN Return(1)
    ELSE IF r.kind = "str" THEN Raise(npError)
         ELSE PyIndex(lookup.vector, r.v)

\* part[holeNumber]: BaxH5Reader.__getitem__; no hole number equals a string
BaxH5Reader_getitem(part, r) ==
    IF r.kind = "str" THEN Raise("KeyError") ELSE Zmw(part, r.v)

\* A lookup that takes the routing vector's entry for the part's position.
_getitemScalar_OffByOne(ps, lookup, r, npError) ==
    LET F(partNumber) ==
            LET G(part) == BaxH5Reader_getitem(part, r)
            IN  Bind(PyIndex(ps, partNumber), G)
    IN  Bind(_holeLookup(lookup, r, npError), F)

\* BasH5Reader._getitemScalar
_getitemScalar(ps, lookup, r, npError) ==
    LET F(partNumber) ==
            LET G(part) == BaxH5Reader_getitem(part, r)
            IN  Bind(PyIndex(ps, partNumber - 1), G)
    IN  Bind(_holeLookup(lookup, r, npError), F)

\* [ self._getitemScalar(r) for r in rs ]
RECURSIVE getitemEach(_, _, _, _)
getitemEach(ps, lookup, rs, npError) ==
    IF rs = <<>> THEN Return(<<>>)
    ELSE LET first == _getitemScalar(ps, lookup, Head(rs), npError)
         IN  IF ~IsReturn(first) THEN first
             ELSE LET rest == getitemEach(ps, lookup, Tail(rs), npError)
                  IN  IF ~IsReturn(rest) THEN rest
                      ELSE Return(<<first.val>> \o rest.val)

\* One bound of slice.indices(length), the step being 1
sliceBound(bound, length, default) ==
    IF bound = <<>> THEN default
    ELSE IF bound[1] < 0 THEN Max2(bound[1] + length, 0)
         ELSE Min2(bound[1], length)

\* xrange(*holeNumbers.indices(length))
sliceRange(key, length) ==
    LET start == sliceBound(key.start, length, 0)
        stop == sliceBound(key.stop, length, length)
    IN  [i \in 1..Max2(stop - start, 0) |-> Item("int", start + i - 1)]

\* np.flatnonzero(holeNumbers): the 0-based positions of the nonzero items
RECURSIVE flatnonzeroFrom(_, _)
flatnonzeroFrom(items, pos) ==
    IF items = <<>> THEN <<>>
    ELSE (IF Head(items).v /= 0 THEN <<Item("npint", pos)>> ELSE <<>>)
         \o flatnonzeroFrom(Tail(items), pos + 1)

flatnonzero(items) == flatnonzeroFrom(items, 0)

\* BasH5Reader.__getitem__; len(self) is len(self.sequencingZmws)
BasH5Reader_getitem(ps, lookup, seqZmws, key, npError) ==
    IF IsIntegerInstance(key.kind)
    THEN _getitemScalar(ps, lookup, key, npError)
    ELSE IF key.kind = "slice"
    THEN getitemEach(ps, lookup, sliceRange(key, Len(seqZmws)), npError)
    ELSE IF key.kind \in {"list", "ndarray"}
    THEN IF Len(key.items) = 0 THEN Return(<<>>)
         ELSE LET entryType == key.items[1].kind
              IN  IF IsIntegerType(entryType)
                  THEN getitemEach(ps, lookup, key.items, npError)
                  ELSE IF IsBoolType(entryType)
                  THEN getitemEach(ps, lookup, flatnonzero(key.items), npError)
                  ELSE Raise("TypeError")
    ELSE Raise("TypeError")

(********************************* files ***********************************)

\* The orders in which a file can list n distinct holes.
HoleOrders(n) ==
    {s \in [1..n -> HoleNumbers] : \A i, j \in 1..n : s[i] = s[j] => i = j}

AllHoleOrders == UNION {HoleOrders(n) : n \in 0..Cardinality(HoleNumbers)}

\* The datasets of ZMWMetrics every file has (the constructor reads
\* ReadScore and Productivity): one value per hole, its row number here.
\* A dataset is [ndim, rows]: the length of its shape and its entries along
\* the first axis.
ReadScoreAndProductivity(n) ==
    [name \in {"ReadScore", "Productivity"} |->
        [ndim |-> 1, rows |-> [i \in 1..n |-> i - 1]]]

File(name, holes, numEvent, ccsNumEvent, status, hasRaw, hasCCS, regions) ==
    [ filename    |-> name,
      holeNumber  |-> holes,
      numEvent    |-> numEvent,
      ccsNumEvent |-> ccsNumEvent,
      holeStatus  |-> status,
      numPasses   |-> [i \in 1..Len(holes) |-> i],
      hasRaw      |-> hasRaw,
      hasCCS      |-> hasCCS,
      regions     |-> regions,
      metrics     |-> ReadScoreAndProductivity(Len(holes)) ]

\* h5py.File(filename, "r"): an open handle, close() not yet called on it
OpenHandle == [file |-> "open", closes |-> 0]

\* The constructor reads ReadScore and Productivity whole (lines 348-349);
\* the metric cache starts empty (line 396).
ConstructorReads(f) ==
    [name \in DOMAIN f.metrics |->
        IF name \in {"ReadScore", "Productivity"} THEN 1 ELSE 0]

\* What the constructors leave besides the parts and the lookup.
Opened(fs) ==
    /\ sequencingZmws = concatSequencingZmws(parts)
    /\ store = fs
    /\ handles = [top |-> OpenHandle, parts |-> [i \in 1..Len(fs) |-> OpenHandle]]
    /\ metricCache = [i \in 1..Len(fs) |-> <<>>]
    /\ storeReads = [i \in 1..Len(fs) |-> ConstructorReads(fs[i])]
    /\ seen = <<>>
    /\ call = [op |-> "open"]
    /\ result = Return(NoneValue)

\* BasH5Reader.__init__ on a file with no MultiPart group: one part, the
\* file itself, and a lookup that answers 1 for every hole.
OpenSinglePart(f) ==
    /\ BaxH5ReaderOpens(f)
    /\ \E comparison \in DatasetComparisons :
           parts = <<BaxH5Reader(f, comparison)>>
    /\ holeLookup = [multi |-> FALSE, vector |-> <<>>]
    /\ Opened(<<f>>)

\* BasH5Reader.__init__ on a file with a MultiPart group: one BaxH5Reader
\* per name in /MultiPart/Parts, and column 1 of /MultiPart/HoleLookup as
\* the lookup.
OpenMultiPart(fs, vector) ==
    /\ \A i \in 1..Len(fs) : BaxH5ReaderOpens(fs[i])
    /\ \E comparison \in DatasetComparisons :
           parts = [i \in 1..Len(fs) |-> BaxH5Reader(fs[i], comparison)]
    /\ holeLookup = [multi |-> TRUE, vector |-> vector]
    /\ Opened(fs)

(******************************** calls ***********************************)

\* A client opens a file and makes a call on the reader.  No call changes
\* the reader, so each specification below looks at the first call.
Fresh == call.op = "open"

Opt(S) == {<<>>} \cup {<<v>> : v \in S}

\* ZmwRead(baxH5, holeNumber, readStart, readEnd)
NewZmwRead ==
    \E p \in 1..Len(parts), h \in AnyHole, s, e \in -1..(MaxEvent + 1) :
        /\ call' = [op |-> "ZmwRead", part |-> p, holeNumber |-> h,
                    readStart |-> s, readEnd |-> e]
        /\ result' = ZmwRead(parts[p], h, s, e)
        /\ UNCHANGED <<reader, seen>>

\* CCSZmwRead(baxH5, holeNumber, readStart, readEnd)
NewCCSZmwRead ==
    \E p \in 1..Len(parts), h \in AnyHole, s, e \in -1..(MaxEvent + 1) :
        /\ call' = [op |-> "CCSZmwRead", part |-> p, holeNumber |-> h,
                    readStart |-> s, readEnd |-> e]
        /\ result' = CCSZmwRead(parts[p], h, s, e)
        /\ UNCHANGED <<reader, seen>>

\* part[holeNumber].<method>: the view is built, then the method runs on it
OnZmw(p, h, M(_, _)) ==
    LET F(zmw) == M(parts[p], zmw)
    IN  Bind(Zmw(parts[p], h), F)

\* The client keeps, for each of these, the first call it made and what
\* the call produced, and notes in `again` when it repeats that call.
Remembered == {"regionTable", "hqRegion", "subreads"}

ZmwCall(name, M(_, _)) ==
    \E p \in 1..Len(parts), h \in AnyHole :
        /\ call' = [op |-> name, part |-> p, holeNumber |-> h,
                    again |-> /\ name \in DOMAIN seen
                              /\ seen[name].part = p
                              /\ seen[name].holeNumber = h]
        /\ result' = OnZmw(p, h, M)
        /\ seen' = IF name \in Remembered /\ name \notin DOMAIN seen
                   THEN (name :> [part |-> p, holeNumber |-> h,
                                  result |-> OnZmw(p, h, M)]) @@ seen
                   ELSE seen
        /\ UNCHANGED reader

RegionTable == ZmwCall("regionTable", Zmw_regionTable)

HqRegion == ZmwCall("hqRegion", Zmw_hqRegion)

AdapterRegions == ZmwCall("adapterRegions", Zmw_adapterRegions)

InsertRegions == ZmwCall("insertRegions", Zmw_insertRegions)

Subreads == ZmwCall("subreads", Zmw_subreads)

Adapters == ZmwCall("adapters", Zmw_adapters)

CcsRead == ZmwCall("ccsRead", Zmw_ccsRead)

NumPasses == ZmwCall("numPasses", Zmw_numPasses)

\* part[holeNumber].read(readStart, readEnd), each argument left out or given
ReadWith(s, e) ==
    \E p \in 1..Len(parts), h \in AnyHole :
        /\ call' = [op |-> "read", part |-> p, holeNumber |-> h,
                    readStart |-> s, readEnd |-> e]
        /\ result' = LET M(baxH5, zmw) == Zmw_read(baxH5, zmw, s, e)
                     IN  OnZmw(p, h, M)
        /\ UNCHANGED <<reader, seen>>

Read == \E s, e \in Opt(-1..(MaxEvent + 1)) : ReadWith(s, e)

\* read(), read(readStart) and read(readEnd=...)
ReadDefaulted ==
    \E s, e \in Opt(-1..(MaxEvent + 1)) :
        /\ s = <<>> \/ e = <<>>
        /\ ReadWith(s, e)

(**************** SpecRead: reads of a file, by its offsets ****************)

\* One HQ row per hole, spanning the hole's events.
FullHqRows(holes, numEvent) ==
    [i \in 1..Len(holes) |->
        [holeNumber |-> holes[i], regionType |-> HQ_REGION,
         regionStart |-> 0, regionEnd |-> numEvent[i]]]

Capabilities == {<<TRUE, TRUE>>, <<TRUE, FALSE>>, <<FALSE, TRUE>>}

InitRead ==
    \E holes \in HoleOrders(Cardinality(HoleNumbers)) :
    \E numEvent, ccsNumEvent \in [1..Len(holes) -> 0..MaxEvent] :
    \E cap \in Capabilities :
    \E regions \in {<<>>, FullHqRows(holes, numEvent)} :
        OpenSinglePart(File("m.bax.h5", holes, numEvent, ccsNumEvent,
                            [i \in 1..Len(holes) |-> SEQUENCING_ZMW],
                            cap[1], cap[2], regions))

NextRead ==
    \/ Fresh /\ NewZmwRead
    \/ Fresh /\ NewCCSZmwRead
    \/ Fresh /\ Read
    \/ Fresh /\ Subreads
    \/ Fresh /\ Adapters
    \/ Fresh /\ CcsRead
    \/ Fresh /\ NumPasses

SpecRead == InitRead /\ [][NextRead]_vars

\* What the claims below say of a call: the part it went to, whether that
\* part holds the hole (so that part[holeNumber] gave a view).
CallPart == parts[call.part]
HasView == call.holeNumber \in DOMAIN CallPart._holeNumberToIndex

(* C1: a ZmwRead (CCSZmwRead) of a hole with an entry (begin, end) in the   *)
(* raw (consensus) offset index is constructed if and only if               *)
(* begin <= begin + readStart <= begin + readEnd <= end, and otherwise      *)
(* IndexError is raised; a constructed read keeps the bounds it was given,  *)
(* has 0 <= len = readEnd - readStart, and its offsets lie in [begin, end]. *)
C1_ReadRangeGate ==
    call.op \in {"ZmwRead", "CCSZmwRead"} =>
        LET offsets == IF call.op = "CCSZmwRead"
                       THEN CallPart._ccsOffsetsByHole
                       ELSE CallPart._offsetsByHole
        IN  call.holeNumber \in DOMAIN offsets =>
            LET begin == offsets[call.holeNumber][1]
                end == offsets[call.holeNumber][2]
                inside == /\ begin <= begin + call.readStart
                          /\ begin + call.readStart <= begin + call.readEnd
                          /\ begin + call.readEnd <= end
            IN  /\ IsReturn(result) <=> inside
                /\ ~inside => result = Raise("IndexError")
                /\ IsReturn(result) =>
                      /\ result.val.kind = call.op
                      /\ result.val.holeNumber = call.holeNumber
                      /\ result.val.readStart = call.readStart
                      /\ result.val.readEnd = call.readEnd
                      /\ 0 <= ReadLen(result.val)
                      /\ ReadLen(result.val) = call.readEnd - call.readStart
                      /\ result.val.offsetBegin = begin + call.readStart
                      /\ result.val.offsetEnd = begin + call.readEnd
                      /\ begin <= result.val.offsetBegin
                      /\ result.val.offsetEnd <= end

\* A read that starts inside its hole and ends past the hole's last event,
\* on a hole that is not the last of the file, is refused.
C1_Witness ==
    /\ call.op = "ZmwRead"
    /\ call.holeNumber \in DOMAIN CallPart._offsetsByHole
    /\ LET begin == CallPart._offsetsByHole[call.holeNumber][1]
           end == CallPart._offsetsByHole[call.holeNumber][2]
       IN  /\ 0 <= call.readStart
           /\ call.readStart <= call.readEnd
           /\ begin + call.readEnd > end
           /\ \E h \in DOMAIN CallPart._offsetsByHole :
                 CallPart._offsetsByHole[h][2] >= begin + call.readEnd
    /\ result = Raise("IndexError")

(* C9: on a view of a file without raw basecalls, read, subreads and        *)
(* adapters raise ValueError; on a view of a file without consensus         *)
(* basecalls, ccsRead and numPasses raise ValueError: whatever the region   *)
(* rows, the offsets and the requested bounds, never KeyError or IndexError.*)
C9_CapabilityFirst ==
    /\ (/\ call.op \in {"read", "subreads", "adapters"}
        /\ HasView
        /\ ~CallPart.hasRawBasecalls) => result = Raise("ValueError")
    /\ (/\ call.op \in {"ccsRead", "numPasses"}
        /\ HasView
        /\ ~CallPart.hasConsensusBasecalls) => result = Raise("ValueError")

\* read() with a bound no hole has, on a hole with no region rows, of a file
\* without raw basecalls.
C9_Witness ==
    /\ call.op = "read"
    /\ HasView
    /\ ~CallPart.hasRawBasecalls
    /\ call.holeNumber \notin DOMAIN CallPart._regionTableIndex
    /\ call.readStart = <<-1>>
    /\ result = Raise("ValueError")

(* C10: with consensus basecalls, ccsRead of a hole returns None exactly    *)
(* when the hole's consensus offset range has length <= 0, and otherwise a  *)
(* CCSZmwRead with readStart = 0 and readEnd = end - begin, at the hole's   *)
(* consensus offsets; it never raises IndexError.                           *)
C10_CcsRead ==
    (/\ call.op = "ccsRead"
     /\ HasView
     /\ CallPart.hasConsensusBasecalls) =>
        LET begin == CallPart._ccsOffsetsByHole[call.holeNumber][1]
            end == CallPart._ccsOffsetsByHole[call.holeNumber][2]
        IN  /\ result = Return(NoneValue) <=> end - begin <= 0
            /\ end - begin > 0 =>
                  result = Return([kind |-> "CCSZmwRead",
                                   holeNumber |-> call.holeNumber,
                                   readStart |-> 0,
                                   readEnd |-> end - begin,
                                   offsetBegin |-> begin,
                                   offsetEnd |-> end])
            /\ result /= Raise("IndexError")

\* The consensus read of a hole whose consensus range does not begin at 0.
C10_Witness ==
    /\ call.op = "ccsRead"
    /\ HasView
    /\ CallPart.hasConsensusBasecalls
    /\ CallPart._ccsOffsetsByHole[call.holeNumber][1] > 0
    /\ IsReturn(result)
    /\ result.val.kind = "CCSZmwRead"
    /\ result.val.readEnd > 0

(************ SpecRegions: the region rows and intervals of a hole *********)

Intervals == {<<s, e>> \in Positions \X Positions : s <= e}

RegionRows(holes, intervals) ==
    {[holeNumber |-> h, regionType |-> t,
      regionStart |-> r[1], regionEnd |-> r[2]] :
        h \in holes, t \in {ADAPTER_REGION, INSERT_REGION, HQ_REGION},
        r \in intervals}

\* The rows of one hole follow each other; the holes come in any order.
Contiguous(t) ==
    \A i, k \in 1..Len(t) :
        (i < k /\ t[i].holeNumber = t[k].holeNumber) =>
            \A j \in i..k : t[j].holeNumber = t[i].holeNumber

RegionTables(rows) ==
    {t \in UNION {[1..n -> rows] : n \in 0..MaxRows} : Contiguous(t)}

InitRegions ==
    \E regions \in RegionTables(RegionRows(HoleNumbers, Intervals)) :
        OpenSinglePart(File("m.bax.h5", <<0, 1>>, <<2, 2>>, <<0, 0>>,
                            <<SEQUENCING_ZMW, SEQUENCING_ZMW>>,
                            TRUE, TRUE, regions))

NextRegions ==
    \/ Fresh /\ RegionTable
    \/ Fresh /\ HqRegion
    \/ Fresh /\ AdapterRegions
    \/ Fresh /\ InsertRegions
    \/ Fresh /\ Subreads

SpecRegions == InitRegions /\ [][NextRegions]_vars

\* The rows of the annotation table that carry hole h, in table order.
RECURSIVE RowsOfHole(_, _)
RowsOfHole(table, h) ==
    IF table = <<>> THEN <<>>
    ELSE (IF Head(table).holeNumber = h THEN <<Head(table)>> ELSE <<>>)
         \o RowsOfHole(Tail(table), h)

\* The high-quality interval the rows of a hole give: the one HQ row's, or
\* (0, 0) when there is none or more than one.
HqOfRows(rows) ==
    LET hq == SelectRows(rows, HQ_REGION)
    IN  IF Len(hq) = 1 THEN <<hq[1].regionStart, hq[1].regionEnd>>
        ELSE <<0, 0>>

\* The rows of one type cut to hq, in row order, the empty cuts left out.
RECURSIVE ClipRows(_, _, _)
ClipRows(rows, type, hq) ==
    IF rows = <<>> THEN <<>>
    ELSE LET r == Head(rows)
             b == Max2(hq[1], r.regionStart)
             e == Min2(hq[2], r.regionEnd)
         IN  (IF r.regionType = type /\ b < e THEN <<<<b, e>>>> ELSE <<>>)
             \o ClipRows(Tail(rows), type, hq)

(* C2: for every hole of the file, adapterRegions (insertRegions) returns   *)
(* the intersections of the hole's ADAPTER (INSERT) rows with the hole's    *)
(* high-quality interval, in row order, without the empty ones.             *)
C2_ClippedIntervals ==
    (call.op \in {"adapterRegions", "insertRegions"} /\ HasView) =>
        LET rows == RowsOfHole(CallPart.regionTable, call.holeNumber)
            type == IF call.op = "adapterRegions" THEN ADAPTER_REGION
                    ELSE INSERT_REGION
        IN  result = Return(ClipRows(rows, type, HqOfRows(rows)))

(* C3: for every hole of the file, hqRegion returns the hole's one HQ row,  *)
(* or (0, 0) without raising when the hole's rows hold no HQ row or several;*)
(* where it returns (0, 0), insertRegions, adapterRegions and subreads are  *)
(* empty.                                                                   *)
C3_HqRegion ==
    /\ (call.op = "hqRegion" /\ HasView) =>
          result = Return(HqOfRows(RowsOfHole(CallPart.regionTable,
                                              call.holeNumber)))
    /\ (/\ call.op \in {"insertRegions", "adapterRegions", "subreads"}
        /\ HasView
        /\ OnZmw(call.part, call.holeNumber, Zmw_hqRegion) = Return(<<0, 0>>))
          => result = Return(<<>>)

(* C8: for a hole the file holds that has no row in the annotation table,   *)
(* and so no entry in the region index, regionTable returns the empty       *)
(* sequence, hqRegion returns (0, 0) and adapterRegions and insertRegions   *)
(* return no interval; none of them raises.                                 *)
C8_NoRows ==
    (/\ call.op \in {"regionTable", "hqRegion", "adapterRegions", "insertRegions"}
     /\ HasView
     /\ RowsOfHole(CallPart.regionTable, call.holeNumber) = <<>>
     /\ call.holeNumber \notin DOMAIN CallPart._regionTableIndex) =>
        /\ call.op = "regionTable" => result = Return(<<>>)
        /\ call.op = "hqRegion" => result = Return(<<0, 0>>)
        /\ call.op \in {"adapterRegions", "insertRegions"} =>
              result = Return(<<>>)

(***************** SpecView: the reads a view hands out ********************)

\* The rows of hole 1, the second hole of the file: the high-quality
\* interval (0, 0) of a hole without usable sequence, and non-empty rows.
ViewIntervals == {<<s, e>> \in Intervals : s < e \/ e = 0}

InitView ==
    \E n \in 1..MaxEvent :
    \E regions \in RegionTables(RegionRows({1}, ViewIntervals)) :
        OpenSinglePart(File("m.bax.h5", <<0, 1>>, <<n, n>>, <<0, 0>>,
                            <<SEQUENCING_ZMW, SEQUENCING_ZMW>>,
                            TRUE, FALSE, regions))

NextView ==
    \/ Fresh /\ Subreads
    \/ Fresh /\ Adapters
    \/ Fresh /\ ReadDefaulted

SpecView == InitView /\ [][NextView]_vars

\* What ZmwRead gives for the bounds (s, e) on the hole of the call.
ExpectedRead(s, e) ==
    LET begin == CallPart._offsetsByHole[call.holeNumber][1]
        end == CallPart._offsetsByHole[call.holeNumber][2]
    IN  IF 0 <= s /\ s <= e /\ e <= end - begin
        THEN Return([kind |-> "ZmwRead", holeNumber |-> call.holeNumber,
                     readStart |-> s, readEnd |-> e,
                     offsetBegin |-> begin + s, offsetEnd |-> begin + e])
        ELSE Raise("IndexError")

(* C4: on a view of a file with raw basecalls, subreads (adapters) returns  *)
(* one read per interval of insertRegions (adapterRegions), in order and    *)
(* with the interval's bounds, and read replaces a bound left out by the    *)
(* bound of hqRegion; each read goes through ZmwRead's range check, and     *)
(* one interval outside the hole's events makes the call raise IndexError.  *)
C4_ReadsOfIntervals ==
    /\ (/\ call.op \in {"subreads", "adapters"}
        /\ HasView
        /\ CallPart.hasRawBasecalls) =>
          LET regions == IF call.op = "subreads"
                         THEN OnZmw(call.part, call.holeNumber, Zmw_insertRegions)
                         ELSE OnZmw(call.part, call.holeNumber, Zmw_adapterRegions)
          IN  IsReturn(regions) =>
                LET reads == [i \in 1..Len(regions.val) |->
                                 ExpectedRead(regions.val[i][1], regions.val[i][2])]
                IN  IF \A i \in 1..Len(reads) : IsReturn(reads[i])
                    THEN result = Return([i \in 1..Len(reads) |-> reads[i].val])
                    ELSE result = Raise("IndexError")
    /\ (/\ call.op = "read"
        /\ HasView
        /\ CallPart.hasRawBasecalls) =>
          LET hq == OnZmw(call.part, call.holeNumber, Zmw_hqRegion)
          IN  IsReturn(hq) =>
                result = ExpectedRead(
                    IF call.readStart = <<>> THEN hq.val[1] ELSE call.readStart[1],
                    IF call.readEnd = <<>> THEN hq.val[2] ELSE call.readEnd[1])

\* Two subreads, in row order, of a hole whose events do not begin at 0.
C4_Witness ==
    /\ call.op = "subreads"
    /\ IsReturn(result)
    /\ Len(result.val) = 2
    /\ result.val[1].readEnd <= result.val[2].readStart
    /\ result.val[1].offsetBegin > result.val[1].readStart

(************ SpecBulk: lookups on single- and multi-part files ************)

\* A part file: any holes in any order, one event and one HQ row per hole,
\* each hole a sequencing ZMW (status 0) or not (status 1).
PartFiles(name) ==
    UNION {{File(name, holes,
                 [i \in 1..Len(holes) |-> 1], [i \in 1..Len(holes) |-> 0],
                 status, TRUE, TRUE,
                 FullHqRows(holes, [i \in 1..Len(holes) |-> 1])) :
              status \in [1..Len(holes) -> {SEQUENCING_ZMW, 1}]} :
           holes \in AllHoleOrders}

\* A routing vector has a slot for every hole number a client asks for and
\* names one of the two parts in each.
HoleLookupVectors == [1..Cardinality(AnyHole) -> {1, 2}]

InitBulk ==
    \/ \E f \in PartFiles("m.bax.h5") : OpenSinglePart(f)
    \/ \E f1 \in PartFiles("m.1.bax.h5"), f2 \in PartFiles("m.2.bax.h5") :
       \E vector \in HoleLookupVectors :
           OpenMultiPart(<<f1, f2>>, vector)

SeqsUpTo(S, n) == UNION {[1..k -> S] : k \in 0..n}

ItemsOf(kind, values) == {Item(kind, v) : v \in values}

\* reader[x] for a scalar x: an int, a long, a numpy integer, a float, a
\* string, None or a tuple.  (True and False are left out: what numpy does
\* with a bool index changed between its versions.)
ScalarKeys ==
    ItemsOf("int", AnyHole) \cup ItemsOf("npint", AnyHole)
    \cup ItemsOf("long", AnyHole) \cup ItemsOf("float", AnyHole)
    \cup {Item("str", 0), Item("NoneType", 0), Item("tuple", 0)}

\* reader[start:stop], each bound given or not
SliceKeys ==
    {[kind |-> "slice", start |-> a, stop |-> b] :
        a \in Opt(-1..Cardinality(AnyHole)), b \in Opt(-1..Cardinality(AnyHole))}

\* reader[[...]]: a list of values of one type, or of ints and strings
ListKeys ==
    {[kind |-> "list", items |-> items] :
        items \in SeqsUpTo(ItemsOf("int", AnyHole), MaxKeyLen)
             \cup SeqsUpTo(ItemsOf("npint", AnyHole), MaxKeyLen)
             \cup SeqsUpTo(ItemsOf("long", AnyHole), MaxKeyLen)
             \cup SeqsUpTo(ItemsOf("float", AnyHole), MaxKeyLen)
             \cup SeqsUpTo(ItemsOf("bool", {0, 1}), MaxKeyLen)
             \cup SeqsUpTo(ItemsOf("npbool", {0, 1}), MaxKeyLen)
             \cup SeqsUpTo(ItemsOf("int", HoleNumbers) \cup {Item("str", 0)},
                           MaxKeyLen)}

\* reader[np.array(...)]: the items of an array have one type
ArrayKeys ==
    {[kind |-> "ndarray", items |-> items] :
        items \in SeqsUpTo(ItemsOf("npint", AnyHole), MaxKeyLen)
             \cup SeqsUpTo(ItemsOf("npbool", {0, 1}), MaxKeyLen)
             \cup SeqsUpTo(ItemsOf("float", HoleNumbers), MaxKeyLen)
             \cup SeqsUpTo({Item("str", 0)}, MaxKeyLen)}

\* What numpy raises for vector["a"], by its version
NumpyIndexErrors == {"IndexError", "ValueError"}

GetItemOf(keys) ==
    \E key \in keys, npError \in NumpyIndexErrors :
        /\ call' = [op |-> "getitem", key |-> key]
        /\ result' = BasH5Reader_getitem(parts, holeLookup, sequencingZmws,
                                         key, npError)
        /\ UNCHANGED <<reader, seen>>

GetScalar == GetItemOf(ScalarKeys)

GetSlice == GetItemOf(SliceKeys)

GetList == GetItemOf(ListKeys)

GetArray == GetItemOf(ArrayKeys)

NextBulk ==
    \/ Fresh /\ GetScalar
    \/ Fresh /\ GetSlice
    \/ Fresh /\ GetList
    \/ Fresh /\ GetArray

SpecBulk == InitBulk /\ [][NextBulk]_vars

\* The part the routing vector R names for a hole: part[R[id] - 1], the
\* vector's slots and the parts both counted from 0.
OwningPart(id) == parts[holeLookup.vector[id + 1]]

(* C5: on a multi-part file with routing vector R, reader[id] for an        *)
(* integer id is what part[R[id] - 1][id] is - the view of hole id in that  *)
(* part, or the failure to find the hole there; on a single-part file it    *)
(* is what the only part's [id] is.                                         *)
C5_Routing ==
    (/\ call.op = "getitem"
     /\ call.key.kind \in {"int", "npint"}) =>
        LET id == call.key.v
            owner == IF holeLookup.multi THEN OwningPart(id) ELSE parts[1]
        IN  /\ result = Zmw(owner, id)
            /\ IsReturn(result) => /\ result.val.baxH5 = owner.filename
                                   /\ result.val.holeNumber = id

\* A hole that both parts hold is looked up and the routing vector sends it
\* to the second part.
C5_Witness ==
    /\ call.op = "getitem"
    /\ call.key.kind \in {"int", "npint"}
    /\ holeLookup.multi
    /\ call.key.v \in DOMAIN parts[1]._holeNumberToIndex
    /\ IsReturn(result)
    /\ result.val.baxH5 = parts[2].filename

IsBooleanSelector(key) ==
    /\ key.kind \in {"list", "ndarray"}
    /\ Len(key.items) > 0
    /\ \A i \in 1..Len(key.items) : key.items[i].kind \in {"bool", "npbool"}

(* C6: on a multi-part file, reader[b] for a boolean selector b as long as  *)
(* the list of usable holes returns, in order, the views of the usable      *)
(* holes at the positions where b is true (where each of those holes is     *)
(* found in the part the routing vector names for it).                      *)
C6_BooleanSelector ==
    (/\ call.op = "getitem"
     /\ holeLookup.multi
     /\ IsBooleanSelector(call.key)
     /\ Len(call.key.items) = Len(sequencingZmws)) =>
        LET b == call.key.items
            ids == MaskSelect(sequencingZmws,
                              [i \in 1..Len(b) |-> b[i].v /= 0])
            views == [i \in 1..Len(ids) |-> Zmw(OwningPart(ids[i]), ids[i])]
        IN  (\A i \in 1..Len(ids) : IsReturn(views[i])) =>
                result = Return([i \in 1..Len(ids) |-> views[i].val])

IsIntegerId(item) == item.kind \in {"int", "long", "npint"}

\* The four kinds of input a bulk lookup takes.
IsLookupInput(key) ==
    \/ IsIntegerId(key)
    \/ key.kind = "slice"
    \/ /\ key.kind \in {"list", "ndarray"}
       /\ \A i \in 1..Len(key.items) : IsIntegerId(key.items[i])
    \/ IsBooleanSelector(key)

(* C7: reader[x] raises TypeError exactly when x is not an integer, a       *)
(* slice, a list or array of integers, or a boolean selector; an empty      *)
(* list gives an empty list.                                                *)
C7_TypeErrors ==
    call.op = "getitem" =>
        /\ result = Raise("TypeError") <=> ~IsLookupInput(call.key)
        /\ (/\ call.key.kind \in {"list", "ndarray"}
            /\ call.key.items = <<>>) => result = Return(<<>>)

(* C17: on a multi-part file, reader[start:stop] with both bounds given     *)
(* and not negative returns the views reader[id] of the ids from start up   *)
(* to but not including stop, in ascending order (where each of those       *)
(* lookups gives a view), however many usable holes the reader has.         *)
C17_RangeLookup ==
    (/\ call.op = "getitem"
     /\ holeLookup.multi
     /\ call.key.kind = "slice"
     /\ call.key.start /= <<>> /\ call.key.stop /= <<>>
     /\ call.key.start[1] >= 0 /\ call.key.stop[1] >= 0) =>
        LET start == call.key.start[1]
            stop == call.key.stop[1]
            views == [i \in 1..Max2(stop - start, 0) |->
                         LET id == start + i - 1
                         IN  IF id + 1 \in DOMAIN holeLookup.vector
                             THEN Zmw(OwningPart(id), id)
                             ELSE Raise("IndexError")]
        IN  (\A i \in DOMAIN views : IsReturn(views[i])) =>
                result = Return([i \in DOMAIN views |-> views[i].val])

(************** SpecIndex: the two index builders on their own *************)

\* The module is imported and no reader is open.
InitIndex ==
    /\ parts = <<>>
    /\ holeLookup = [multi |-> FALSE, vector |-> <<>>]
    /\ sequencingZmws = <<>>
    /\ store = <<>>
    /\ handles = [top |-> [file |-> "None", closes |-> 0], parts |-> <<>>]
    /\ metricCache = <<>>
    /\ storeReads = <<>>
    /\ seen = <<>>
    /\ call = [op |-> "import"]
    /\ result = Return(NoneValue)

\* ZMW/HoleNumber of a group: up to as many distinct holes as there are
\* numbers to ask for, in any order.
HoleNumberColumns ==
    {s \in SeqsUpTo(AnyHole, Cardinality(AnyHole)) :
        \A i, j \in 1..Len(s) : s[i] = s[j] => i = j}

\* _makeOffsetsDataStructure(h5Group): ZMW/NumEvent and ZMW/HoleNumber have
\* a row per hole
MakeOffsetsDataStructure ==
    \E holeNumber \in HoleNumberColumns :
    \E numEvent \in [1..Len(holeNumber) -> 0..MaxEvent] :
        /\ call' = [op |-> "_makeOffsetsDataStructure",
                    numEvent |-> numEvent, holeNumber |-> holeNumber]
        /\ result' = Return(_makeOffsetsDataStructure(numEvent, holeNumber))
        /\ UNCHANGED <<reader, seen>>

\* _makeRegionTableIndex(regionTable.holeNumber), for any column
MakeRegionTableIndex ==
    \E column \in SeqsUpTo(AnyHole, MaxRows) :
        /\ call' = [op |-> "_makeRegionTableIndex",
                    regionTableHoleNumbers |-> column]
        /\ result' = Return(_makeRegionTableIndex(column))
        /\ UNCHANGED <<reader, seen>>

NextIndex ==
    \/ call.op = "import" /\ MakeOffsetsDataStructure
    \/ call.op = "import" /\ MakeRegionTableIndex

SpecIndex == InitIndex /\ [][NextIndex]_vars

\* counts[1] + ... + counts[n]
RECURSIVE SumOfFirst(_, _)
SumOfFirst(counts, n) ==
    IF n = 0 THEN 0 ELSE SumOfFirst(counts, n - 1) + counts[n]

(* C16: the offset index built from counts and distinct channel ids maps    *)
(* the id of row i to (sum of the counts before row i, sum of the counts    *)
(* up to and including row i) and has no other key; so each range is as     *)
(* wide as its count, the first begins at 0 and each begins where the       *)
(* range of the row before ends, whatever the order of the ids.             *)
C16_OffsetIndex ==
    call.op = "_makeOffsetsDataStructure" =>
        LET counts == call.numEvent
            ids == call.holeNumber
            index == result.val
        IN  /\ IsReturn(result)
            /\ DOMAIN index = {ids[i] : i \in 1..Len(ids)}
            /\ \A i \in 1..Len(ids) :
                  /\ index[ids[i]] = <<SumOfFirst(counts, i - 1),
                                       SumOfFirst(counts, i)>>
                  /\ index[ids[i]][1] <= index[ids[i]][2]
                  /\ index[ids[i]][2] - index[ids[i]][1] = counts[i]
                  /\ i = 1 => index[ids[i]][1] = 0
                  /\ i > 1 => index[ids[i]][1] = index[ids[i - 1]][2]

\* Three holes, not in ascending order, each with events.
C16_Witness ==
    /\ call.op = "_makeOffsetsDataStructure"
    /\ Len(call.holeNumber) = 3
    /\ call.holeNumber[1] > call.holeNumber[2]
    /\ \A i \in 1..3 : call.numEvent[i] > 0
    /\ IsReturn(result)

\* The rows of each id in the column are next to each other.
ContiguousIds(column) ==
    \A i, j \in 1..Len(column) :
        (i < j /\ column[i] = column[j]) =>
            \A k \in i..j : column[k] = column[i]

(* C15: for a table in which the rows of each channel are contiguous, the   *)
(* region index has the channel ids of the table as its keys and maps each  *)
(* to the 0-based half-open row range of exactly the rows with that id.     *)
C15_RegionIndex ==
    (/\ call.op = "_makeRegionTableIndex"
     /\ ContiguousIds(call.regionTableHoleNumbers)) =>
        LET column == call.regionTableHoleNumbers
            index == result.val
        IN  /\ IsReturn(result)
            /\ DOMAIN index = {column[i] : i \in 1..Len(column)}
            /\ \A h \in DOMAIN index :
                  {r \in 0..(Len(column) - 1) :
                      index[h][1] <= r /\ r < index[h][2]}
                  = {r \in 0..(Len(column) - 1) : column[r + 1] = h}

(************ SpecUsable: the usable holes of a single-part file ************)

\* HQ rows of the holes: no events, the first event, the second.
HqRows ==
    {[holeNumber |-> h, regionType |-> HQ_REGION,
      regionStart |-> r[1], regionEnd |-> r[2]] :
        h \in HoleNumbers, r \in {<<0, 0>>, <<0, 1>>, <<1, 2>>}}

\* Both holes in either order, each a sequencing ZMW or not, with or
\* without events, and any table of HQ rows: none, one or several per hole.
InitUsable ==
    \E holes \in HoleOrders(Cardinality(HoleNumbers)) :
    \E status \in [1..Len(holes) -> {SEQUENCING_ZMW, 1}] :
    \E numEvent \in [1..Len(holes) -> 0..MaxEvent] :
    \E regions \in RegionTables(HqRows) :
        OpenSinglePart(File("m.bax.h5", holes, numEvent,
                            [i \in 1..Len(holes) |-> 0], status,
                            TRUE, FALSE, regions))

\* part.sequencingZmws
SequencingZmws ==
    \E p \in 1..Len(parts) :
        /\ call' = [op |-> "sequencingZmws", part |-> p]
        /\ result' = Return(parts[p]._sequencingZmws)
        /\ UNCHANGED <<reader, seen>>

NextUsable ==
    \/ Fresh /\ SequencingZmws
    \/ Fresh /\ HqRegion

SpecUsable == InitUsable /\ [][NextUsable]_vars

\* part[holeNumber].hqRegion, as a client would ask for it
HqRegionOf(p, h) == OnZmw(p, h, Zmw_hqRegion)

(* C11: the usable holes of a single-part reader are exactly the holes of   *)
(* the file with status 0, a nonzero event count and an hqRegion of         *)
(* nonzero length, each listed once; so hqRegion of a usable hole has       *)
(* start <= end.                                                            *)
C11_UsableHoles ==
    call.op = "sequencingZmws" =>
        LET f == store[call.part]
            usable == result.val
        IN  /\ \A i \in 1..Len(f.holeNumber) :
                  LET h == f.holeNumber[i]
                      hq == HqRegionOf(call.part, h)
                  IN  (\E k \in 1..Len(usable) : usable[k] = h) <=>
                          /\ f.holeStatus[i] = SEQUENCING_ZMW
                          /\ f.numEvent[i] /= 0
                          /\ IsReturn(hq)
                          /\ hq.val[1] /= hq.val[2]
            /\ \A k \in 1..Len(usable) :
                  LET hq == HqRegionOf(call.part, usable[k])
                  IN  IsReturn(hq) /\ hq.val[1] <= hq.val[2]

(**************** SpecMetric: requests for ZMW metrics **********************)

\* The metrics asked for: two every file has, one some files have, one no
\* file has.
MetricNames == {"ReadScore", "Productivity", "HQRegionSNR", "NoSuchMetric"}

\* ZMWMetrics/HQRegionSNR: a row of four values per hole; here the row
\* number and the channel
HQRegionSNR(n) ==
    [ndim |-> 2, rows |-> [i \in 1..n |-> [c \in 1..4 |-> 10 * (i - 1) + c]]]

\* Files with any holes in any order, with or without HQRegionSNR.
InitMetric ==
    \E holes \in AllHoleOrders :
    \E withSNR \in BOOLEAN :
        LET f == File("m.bax.h5", holes,
                      [i \in 1..Len(holes) |-> 1], [i \in 1..Len(holes) |-> 0],
                      [i \in 1..Len(holes) |-> SEQUENCING_ZMW], TRUE, FALSE,
                      FullHqRows(holes, [i \in 1..Len(holes) |-> 1]))
        IN  OpenSinglePart(
                IF withSNR
                THEN [f EXCEPT !.metrics =
                         ("HQRegionSNR" :> HQRegionSNR(Len(holes))) @@ @]
                ELSE f)

\* The request limit of the model: no dataset has been read MaxReads times.
ReadsBelowLimit(p) ==
    \A name \in DOMAIN storeReads[p] : storeReads[p][name] < MaxReads

\* part.zmwMetric(name, index); `hit` records whether the cache had the
\* name when the request came
ReaderZmwMetric ==
    \E p \in 1..Len(parts), name \in MetricNames, index \in -1..Cardinality(HoleNumbers) :
        LET out == BaxH5Reader_zmwMetric(metricCache[p], storeReads[p],
                                         store[p], name, index)
        IN  /\ ReadsBelowLimit(p)
            /\ call' = [op |-> "zmwMetric", part |-> p, name |-> name,
                        index |-> index, hit |-> name \in DOMAIN metricCache[p]]
            /\ result' = out.result
            /\ metricCache' = [metricCache EXCEPT ![p] = out.cache]
            /\ storeReads' = [storeReads EXCEPT ![p] = out.reads]
            /\ UNCHANGED <<parts, holeLookup, sequencingZmws, store, handles,
                           seen>>

\* part[holeNumber].zmwMetric(name): Zmw.zmwMetric passes the view's index
ZmwMetric ==
    \E p \in 1..Len(parts), h \in AnyHole, name \in MetricNames :
        LET zmw == Zmw(parts[p], h)
            out == IF IsReturn(zmw)
                   THEN BaxH5Reader_zmwMetric(metricCache[p], storeReads[p],
                                              store[p], name, zmw.val.index)
                   ELSE [cache |-> metricCache[p], reads |-> storeReads[p],
                         result |-> zmw]
        IN  /\ ReadsBelowLimit(p)
            /\ call' = [op |-> "Zmw.zmwMetric", part |-> p, holeNumber |-> h,
                        name |-> name, hit |-> name \in DOMAIN metricCache[p]]
            /\ result' = out.result
            /\ metricCache' = [metricCache EXCEPT ![p] = out.cache]
            /\ storeReads' = [storeReads EXCEPT ![p] = out.reads]
            /\ UNCHANGED <<parts, holeLookup, sequencingZmws, store, handles,
                           seen>>

NextMetric ==
    \/ ReaderZmwMetric
    \/ ZmwMetric

SpecMetric == InitMetric /\ [][NextMetric]_vars

\* The entry at row `index` of the dataset of `name` in the file, looked up
\* without a cache.
DirectLookup(f, name, index) ==
    IF name \notin DOMAIN f.metrics THEN Raise("KeyError")
    ELSE LET rows == f.metrics[name].rows
         IN  IF index >= Len(rows) \/ index < -Len(rows)
             THEN Raise("IndexError")
             ELSE Return(rows[(IF index < 0 THEN Len(rows) + index ELSE index) + 1])

(* C12: whatever metric requests were made on an open reader, the dataset   *)
(* of each metric name was read at most once after the constructor, namely  *)
(* exactly when the name is in the cache; the cache holds the datasets as   *)
(* the file has them; and each request produced the entry at its row index  *)
(* that a lookup in the file itself produces.                               *)
C12_MetricCache ==
    /\ \A p \in 1..Len(parts) :
          /\ \A name \in DOMAIN storeReads[p] :
                LET requested == storeReads[p][name]
                                     - ConstructorReads(store[p])[name]
                IN  requested = IF name \in DOMAIN metricCache[p] THEN 1 ELSE 0
          /\ \A name \in DOMAIN metricCache[p] :
                /\ name \in DOMAIN store[p].metrics
                /\ metricCache[p][name] = store[p].metrics[name]
    /\ call.op = "zmwMetric" =>
           result = DirectLookup(store[call.part], call.name, call.index)
    /\ call.op = "Zmw.zmwMetric" =>
           LET index == parts[call.part]._holeNumberToIndex
           IN  IF call.holeNumber \in DOMAIN index
               THEN result = DirectLookup(store[call.part], call.name,
                                          index[call.holeNumber])
               ELSE result = Raise("KeyError")

\* A request for a name the cache already held returned the row of the
\* second hole of a two-dimensional metric.
C12_Witness ==
    /\ call.op = "Zmw.zmwMetric"
    /\ call.hit
    /\ call.name = "HQRegionSNR"
    /\ IsReturn(result)
    /\ parts[call.part]._holeNumberToIndex[call.holeNumber] = 1
    /\ result.val = store[call.part].metrics["HQRegionSNR"].rows[2]

(******************** SpecClose: closing readers and parts *****************)

AllHandles(hs) == {hs.top} \cup {hs.parts[p] : p \in 1..Len(hs.parts)}

AllClosed(hs) == \A h \in AllHandles(hs) : h.file = "None"

\* The call limit of the model: no handle has been closed MaxCloses times.
ClosesBelowLimit == \A h \in AllHandles(handles) : h.closes < MaxCloses

\* A call `op` that leaves the handles hs; `wasClosed` records whether
\* every handle was closed already when the call came.
CloseCall(op, part, hs) ==
    /\ ClosesBelowLimit
    /\ call' = [op |-> op, part |-> part, wasClosed |-> AllClosed(handles)]
    /\ result' = Return(NoneValue)
    /\ handles' = hs
    /\ UNCHANGED <<parts, holeLookup, sequencingZmws, store, metricCache,
                   storeReads, seen>>

\* reader.close()
Close == CloseCall("close", 0, BasH5Reader_close(handles))

\* reader.__exit__(...), at the end of a with block
Exit == CloseCall("__exit__", 0, BasH5Reader_close(handles))

\* reader.parts[p].close()
ClosePart ==
    \E p \in 1..Len(parts) :
        CloseCall("part.close", p, BaxH5Reader_close(handles, p))

\* reader.parts[p].__exit__(...)
ExitPart ==
    \E p \in 1..Len(parts) :
        CloseCall("part.__exit__", p, BaxH5Reader_close(handles, p))

NextClose ==
    \/ Close
    \/ Exit
    \/ ClosePart
    \/ ExitPart

SpecClose == InitBulk /\ [][NextClose]_vars

(* C13: every close, of the reader or of a part, directly or through        *)
(* __exit__, returns without an error; after a close of the reader its own  *)
(* handle and the handle of every part are closed, after a close of a part  *)
(* that part's is; no h5py handle is ever closed a second time; and a call  *)
(* that finds a handle closed leaves that handle as it is, so that further  *)
(* closes of a closed reader change nothing.                                *)
C13_CloseIdempotent ==
    [][/\ result' = Return(NoneValue)
       /\ call'.op \in {"close", "__exit__"} => AllClosed(handles')
       /\ call'.op \in {"part.close", "part.__exit__"} =>
              handles'.parts[call'.part].file = "None"
       /\ \A h \in AllHandles(handles') : h.closes <= 1
       /\ handles.top.file = "None" => handles'.top = handles.top
       /\ \A p \in 1..Len(handles.parts) :
              handles.parts[p].file = "None" =>
                  handles'.parts[p] = handles.parts[p]
       /\ AllClosed(handles) => reader' = reader]_vars

\* A part of a closed multi-part reader is closed once more.
C13_Witness ==
    /\ call.op = "part.__exit__"
    /\ call.wasClosed
    /\ holeLookup.multi
    /\ AllClosed(handles)
    /\ result = Return(NoneValue)

(************* SpecFrame: calls on views, one after another *****************)

\* /PulseData/BaseCalls/Basecall: one entry per event of the file, here its
\* position
BasecallDataset(f) ==
    [i \in 1..SumOfFirst(f.numEvent, Len(f.numEvent)) |-> i - 1]

\* arrayFromDataset(ds, offsetBegin, offsetEnd) of pbcore.io._utils: the
\* entries of ds from offsetBegin up to offsetEnd
arrayFromDataset(ds, offsetBegin, offsetEnd) ==
    Slice(ds, offsetBegin, offsetEnd)

\* part[holeNumber].read().basecalls(); qv(name) reads another dataset of
\* the group the same way
Basecalls ==
    \E p \in 1..Len(parts), h \in AnyHole :
        /\ call' = [op |-> "basecalls", part |-> p, holeNumber |-> h]
        /\ result' =
              LET M(baxH5, zmw) == Zmw_read(baxH5, zmw, <<>>, <<>>)
                  F(read) == Return(arrayFromDataset(BasecallDataset(store[p]),
                                                     read.offsetBegin,
                                                     read.offsetEnd))
              IN  Bind(OnZmw(p, h, M), F)
        /\ UNCHANGED <<reader, seen>>

\* part[holeNumber].listZmwMetrics()
ListZmwMetrics ==
    \E p \in 1..Len(parts), h \in AnyHole :
        /\ call' = [op |-> "listZmwMetrics", part |-> p, holeNumber |-> h]
        /\ result' =
              LET F(zmw) == BaxH5Reader_listZmwMetrics(parts[p], store[p])
              IN  Bind(Zmw(parts[p], h), F)
        /\ UNCHANGED <<reader, seen>>

\* A region table with the three kinds of rows for hole 0 and an HQ row for
\* hole 1.
FrameRegions ==
    <<[holeNumber |-> 0, regionType |-> HQ_REGION,
       regionStart |-> 0, regionEnd |-> 2],
      [holeNumber |-> 0, regionType |-> INSERT_REGION,
       regionStart |-> 0, regionEnd |-> 1],
      [holeNumber |-> 0, regionType |-> ADAPTER_REGION,
       regionStart |-> 1, regionEnd |-> 2],
      [holeNumber |-> 1, regionType |-> HQ_REGION,
       regionStart |-> 0, regionEnd |-> 1]>>

InitFrame ==
    \E regions \in {<<>>, FrameRegions} :
        OpenSinglePart(File("m.bax.h5", <<0, 1>>, <<2, 1>>, <<1, 0>>,
                            <<SEQUENCING_ZMW, SEQUENCING_ZMW>>,
                            TRUE, TRUE, regions))

NextFrame ==
    \/ RegionTable
    \/ HqRegion
    \/ AdapterRegions
    \/ InsertRegions
    \/ ReadDefaulted
    \/ Subreads
    \/ Adapters
    \/ CcsRead
    \/ ReadsBelowLimit(1) /\ ZmwMetric
    \/ ListZmwMetrics
    \/ Basecalls

SpecFrame == InitFrame /\ [][NextFrame]_vars

\* A call the client repeats produces what it produced the first time.
RepeatsAgree ==
    (call'.op \in Remembered /\ call'.again) =>
        result' = seen[call'.op].result

(* C14 as stated: no call on a view changes the reader's offset indexes,    *)
(* region index, usable holes, metric cache or file handle, and a repeated  *)
(* regionTable, subreads or hqRegion of a hole produces what it produced    *)
(* before.                                                                  *)
C14_Frame ==
    [][/\ parts' = parts
       /\ sequencingZmws' = sequencingZmws
       /\ handles' = handles
       /\ metricCache' = metricCache
       /\ RepeatsAgree]_vars

(* C14 amended: no call on a view changes the reader's offset indexes,      *)
(* region index, usable holes or file handle; the metric cache changes      *)
(* only when zmwMetric is asked for a name it does not hold, and then only  *)
(* by gaining that name's dataset; and a repeated regionTable, subreads or  *)
(* hqRegion of a hole produces what it produced before.                     *)
C14_FrameButCache ==
    [][/\ parts' = parts
       /\ holeLookup' = holeLookup
       /\ sequencingZmws' = sequencingZmws
       /\ store' = store
       /\ handles' = handles
       /\ \A p \in 1..Len(parts) :
             \/ metricCache'[p] = metricCache[p]
             \/ /\ call'.op = "Zmw.zmwMetric"
                /\ call'.part = p
                /\ call'.name \notin DOMAIN metricCache[p]
                /\ DOMAIN metricCache'[p] = DOMAIN metricCache[p] \cup {call'.name}
                /\ metricCache'[p][call'.name] = store[p].metrics[call'.name]
                /\ \A name \in DOMAIN metricCache[p] :
                      metricCache'[p][name] = metricCache[p][name]
       /\ RepeatsAgree]_vars

\* subreads of hole 0 is asked for again, with both metrics cached by
\* requests made in between or before.
C14_Witness ==
    /\ call.op = "subreads"
    /\ call.again
    /\ call.holeNumber = 0
    /\ IsReturn(result) /\ result.val /= <<>>
    /\ DOMAIN metricCache[1] = {"ReadScore", "Productivity"}

====
